---- MODULE Spec2Model ----
(***************************************************************************)
(* Model of app3's periodic log emitter (src/app.py).                      *)
(*                                                                         *)
(* The process configures the root logger once (logging.basicConfig with a *)
(* file name, level INFO and a JSON-shaped format), then loops forever:    *)
(* logging.debug(...), logging.warning(...), time.sleep(3).                *)
(*                                                                         *)
(* The environment is the file system (the directory /tmp/app-logs and the *)
(* file app3.log with whatever an earlier run left in it), the clock and   *)
(* an external signal that kills the process.  The clock is read in        *)
(* milliseconds and never runs backwards.                                  *)
(***************************************************************************)
EXTENDS Integers, Sequences, FiniteSets, TLC

VARIABLES
    pc,            \* position of the process in app.py
    dir,           \* state of /tmp/app-logs: "missing", "unwritable", "writable"
    exists,        \* whether /tmp/app-logs/app3.log exists
    file,          \* the lines of /tmp/app-logs/app3.log
    file0,         \* history: the lines the file held when the process started
    root,          \* the root logger: [level, handlers]
    clock,         \* wall clock, in milliseconds
    debugCalls,    \* history: number of logging.debug calls made
    warningCalls,  \* history: number of logging.warning calls made
    cycles,        \* history: number of completed loop iterations
    opens,         \* history: number of attempts to open the log file
    configured,    \* history: number of times basicConfig configured the root logger
    killed         \* history: an external signal terminated the process

vars == <<pc, dir, exists, file, file0, root, clock, debugCalls, warningCalls,
          cycles, opens, configured, killed>>

----------------------------------------------------------------------------
(* Bounds of the model *)

MaxCycles == 2      \* loop iterations explored
MaxPrior  == 2      \* lines an earlier run may have left in the file
MaxJitter == 1      \* extra milliseconds any step may take

----------------------------------------------------------------------------
(* Program constants *)

DEBUG   == 10
INFO    == 20
WARNING == 30

SleepSecs == 3
MsPerSec  == 1000

Filename == "/tmp/app-logs/app3.log"
StderrName == "<stderr>"

DebugMsg == "This is an info log from app3"
WarnMsg  == "This is an warn log from app3"

\* The format string, split at its %-substitutions.
FormatTemplate ==
    << "{\"timestamp\": \"", "%(asctime)s",
       "\", \"level\": \"", "%(levelname)s",
       "\", \"message\": \"", "%(message)s", "\"}" >>

ConfigLevel == INFO

FileModeTruncate == "w"
FileMode == "a"

LoopCondFalse == FALSE
LoopCond == TRUE

----------------------------------------------------------------------------
(* The logging library, as app.py uses it *)

LevelNameShort(level) ==
    CASE level = DEBUG   -> "DEBUG"
      [] level = INFO    -> "INFO"
      [] level = WARNING -> "WARN"
      [] OTHER           -> "Level"

\* logging.getLevelName for the levels app.py uses
LevelName(level) ==
    CASE level = DEBUG   -> "DEBUG"
      [] level = INFO    -> "INFO"
      [] level = WARNING -> "WARNING"
      [] OTHER           -> "Level"      \* "Level <n>" for an unnamed level

\* %(asctime)s: "<date and time to the second>,<milliseconds>", kept as the
\* pair <<seconds, milliseconds>>
AscTime(ct) == << ct \div MsPerSec, ct % MsPerSec >>

\* the LogRecord of one call
MakeRecord(level, msg, ct) ==
    [ levelno   |-> level,
      asctime   |-> AscTime(ct),
      levelname |-> LevelName(level),
      message   |-> msg ]

\* one segment of the format string, after %-substitution
Subst(seg, rec) ==
    CASE seg = "%(asctime)s"   -> rec.asctime
      [] seg = "%(levelname)s" -> rec.levelname
      [] seg = "%(message)s"   -> rec.message
      [] OTHER                 -> seg

\* Formatter.format: the template with the record's fields substituted verbatim
Format(fmt, rec) == [ i \in 1..Len(fmt) |-> Subst(fmt[i], rec) ]

FileHandler == [ filename |-> Filename, mode |-> FileMode, fmt |-> FormatTemplate ]
StderrHandler == [ filename |-> StderrName, mode |-> "w", fmt |-> <<"%(message)s">> ]

HasHandlersNever(r) == FALSE
\* len(root.handlers) > 0
HasHandlers(r) == Len(r.handlers) > 0

IsEnabledForAlways(r, level) == TRUE
\* Logger.isEnabledFor: the record's level against the logger's threshold
IsEnabledFor(r, level) == level >= r.level

HandlerEmitTwice(h, f, rec) ==
    IF h.filename = Filename
    THEN Append(Append(f, Format(h.fmt, rec)), Format(h.fmt, rec))
    ELSE f
\* StreamHandler.emit: one formatted line written to the handler's stream
HandlerEmit(h, f, rec) ==
    IF h.filename = Filename THEN Append(f, Format(h.fmt, rec)) ELSE f

\* Logger.callHandlers: every handler of the root logger emits the record
RECURSIVE CallHandlers(_, _, _)
CallHandlers(hs, f, rec) ==
    IF hs = << >> THEN f
    ELSE CallHandlers(Tail(hs), HandlerEmit(Head(hs), f, rec), rec)

\* the module-level logging.debug / logging.warning configure the root logger
\* with a stderr handler when it has no handler yet
RootAfterCall(r) ==
    IF HasHandlers(r) THEN r ELSE [ r EXCEPT !.handlers = << StderrHandler >> ]

\* the file after logging.<level>(msg) at time ct
FileAfterCall(r, f, level, msg, ct) ==
    IF IsEnabledFor(RootAfterCall(r), level)
    THEN CallHandlers(RootAfterCall(r).handlers, f, MakeRecord(level, msg, ct))
    ELSE f

OpenRaisesNever == FALSE
\* open(filename, 'a') raises: the directory is missing, or the file has to
\* be created and the directory does not allow it (an existing file is taken
\* to be writable by the process)
OpenRaises == dir = "missing" \/ (dir = "unwritable" /\ ~exists)

\* the content of the file once it is opened in the given mode
OpenedContent(mode, f) == IF mode = "a" THEN f ELSE << >>

SleepDurationZero == 0 * MsPerSec
SleepDurationMillis == SleepSecs
\* time.sleep(3), in milliseconds
SleepDuration == SleepSecs * MsPerSec

SuccSwapped(p) ==
    CASE p = "init"    -> "warning"
      [] p = "warning" -> "debug"
      [] p = "debug"   -> "sleep"
      [] p = "sleep"   -> "warning"
\* program order of app.py: basicConfig; while True: debug; warning; sleep
Succ(p) ==
    CASE p = "init"    -> "debug"
      [] p = "debug"   -> "warning"
      [] p = "warning" -> "sleep"
      [] p = "sleep"   -> "debug"

LoopPcs == { "debug", "warning", "sleep" }
Running == LoopPcs \cup { "init" }

----------------------------------------------------------------------------
(* The state at process start *)

\* what an earlier run of the program left in the file: k WARNING lines 3
\* seconds apart, the last one written just before time t
PriorLines(k, t) ==
    [ i \in 1..k |->
        << "{\"timestamp\": \"", AscTime(t - 1 - (k - i) * SleepSecs * MsPerSec),
           "\", \"level\": \"", "WARNING",
           "\", \"message\": \"", "This is an warn log from app3", "\"}" >> ]

StartClocks ==
    { (MaxPrior + 1) * SleepSecs * MsPerSec + off : off \in { 0, MsPerSec - 1 } }

Init ==
    /\ pc = "init"
    /\ dir \in { "missing", "unwritable", "writable" }
    /\ exists \in (IF dir = "missing" THEN { FALSE } ELSE BOOLEAN)
    /\ clock \in StartClocks
    /\ \E k \in 0..MaxPrior :
          file = IF exists THEN PriorLines(k, clock) ELSE << >>
    /\ file0 = file
    /\ root = [ level |-> WARNING, handlers |-> << >> ]
    /\ debugCalls = 0
    /\ warningCalls = 0
    /\ cycles = 0
    /\ opens = 0
    /\ configured = 0
    /\ killed = FALSE

----------------------------------------------------------------------------
(* The steps of app.py *)

\* lines 4-6: logging.basicConfig(filename=..., level=logging.INFO, format=...)
BasicConfig ==
    /\ pc = "init"
    /\ \E d \in 0..MaxJitter : clock' = clock + d
    /\ IF HasHandlers(root)
       THEN /\ pc' = IF LoopCond THEN Succ(pc) ELSE "exited"
            /\ UNCHANGED << exists, file, root, opens, configured >>
       ELSE /\ opens' = opens + 1
            /\ IF OpenRaises
               THEN /\ pc' = "failed"
                    /\ UNCHANGED << exists, file, root, configured >>
               ELSE /\ exists' = TRUE
                    /\ file' = OpenedContent(FileHandler.mode, file)
                    /\ root' = [ level |-> ConfigLevel, handlers |-> << FileHandler >> ]
                    /\ configured' = configured + 1
                    /\ pc' = IF LoopCond THEN Succ(pc) ELSE "exited"
    /\ UNCHANGED << dir, file0, debugCalls, warningCalls, cycles, killed >>

\* line 9: logging.debug("This is an info log from app3")
Debug ==
    /\ pc = "debug"
    /\ cycles < MaxCycles
    /\ debugCalls' = debugCalls + 1
    /\ root' = RootAfterCall(root)
    /\ configured' = IF HasHandlers(root) THEN configured ELSE configured + 1
    /\ file' = FileAfterCall(root, file, DEBUG, DebugMsg, clock)
    /\ \E d \in 0..MaxJitter : clock' = clock + d
    /\ pc' = Succ(pc)
    /\ UNCHANGED << dir, exists, file0, warningCalls, cycles, opens, killed >>

\* line 10: logging.warning("This is an warn log from app3")
Warning ==
    /\ pc = "warning"
    /\ warningCalls' = warningCalls + 1
    /\ root' = RootAfterCall(root)
    /\ configured' = IF HasHandlers(root) THEN configured ELSE configured + 1
    /\ file' = FileAfterCall(root, file, WARNING, WarnMsg, clock)
    /\ \E d \in 0..MaxJitter : clock' = clock + d
    /\ pc' = Succ(pc)
    /\ UNCHANGED << dir, exists, file0, debugCalls, cycles, opens, killed >>

\* line 11: time.sleep(3), then back to the loop test of line 8
Sleep ==
    /\ pc = "sleep"
    /\ \E d \in 0..MaxJitter : clock' = clock + SleepDuration + d
    /\ cycles' = cycles + 1
    /\ pc' = IF LoopCond THEN Succ(pc) ELSE "exited"
    /\ UNCHANGED << dir, exists, file, file0, root, debugCalls, warningCalls,
                    opens, configured, killed >>

\* the environment: a signal, a supervisor stop or a kill ends the process
Terminate ==
    /\ pc \in Running
    /\ pc' = "stopped"
    /\ killed' = TRUE
    /\ UNCHANGED << dir, exists, file, file0, root, clock, debugCalls,
                    warningCalls, cycles, opens, configured >>

Step == BasicConfig \/ Debug \/ Warning \/ Sleep

Next == BasicConfig \/ Debug \/ Warning \/ Sleep \/ Terminate

Spec == Init /\ [][Next]_vars

\* the interpreter runs the single thread whenever it can take a step
FairSpec == Init /\ [][Next]_vars /\ WF_vars(Step)

----------------------------------------------------------------------------
(* Reading the file back *)

LineTs(line)    == line[2]
LineLevel(line) == line[4]
LineMsg(line)   == line[6]
Last(s) == s[Len(s)]

\* timestamps compare as the text does: seconds first, then milliseconds
TsLess(a, b) == a[1] < b[1] \/ (a[1] = b[1] /\ a[2] < b[2])
TsMillis(a) == a[1] * 1000 + a[2]

IsPrefix(s, t) == Len(s) <= Len(t) /\ \A i \in 1..Len(s) : s[i] = t[i]

LinesAtLevel(f, name) == Cardinality({ i \in 1..Len(f) : LineLevel(f[i]) = name })

----------------------------------------------------------------------------
(* Properties *)

\* C1 (suppression): every cycle makes exactly one logging.debug call (at the
\* loop head as many calls as completed cycles, one more once the call of the
\* current cycle is made), and no line of the file is a DEBUG line or carries
\* the debug message.
C1_Suppression ==
    /\ \A i \in 1..Len(file) :
          /\ LineLevel(file[i]) # "DEBUG"
          /\ LineMsg(file[i]) # "This is an info log from app3"
    /\ (pc = "debug" => debugCalls = cycles)
    /\ (pc \in { "warning", "sleep" } => debugCalls = cycles + 1)

C1_Witness ==
    /\ pc = "sleep"
    /\ debugCalls = 2
    /\ Len(file) = Len(file0) + 2

\* C2 (emission): every logging.warning call appends exactly one line, a
\* WARNING line with the literal message, after the lines already there; no
\* other step changes the file; and every completed cycle has made exactly
\* one such call.
C2_Emission ==
    [][ /\ (warningCalls' # warningCalls =>
               /\ warningCalls' = warningCalls + 1
               /\ Len(file') = Len(file) + 1
               /\ IsPrefix(file, file')
               /\ LineLevel(Last(file')) = "WARNING"
               /\ LineMsg(Last(file')) = "This is an warn log from app3")
        /\ (warningCalls' = warningCalls => file' = file)
        /\ (cycles' # cycles => cycles' = cycles + 1 /\ warningCalls' = cycles')
      ]_vars

C2_Witness ==
    /\ pc = "debug"
    /\ cycles = 2
    /\ warningCalls = 2
    /\ Len(file) = Len(file0) + 2

\* C3, as claimed: after N complete cycles the file shows exactly N WARNING
\* lines, and nothing the file held is rewritten or deleted.
C3_Original ==
    /\ (pc = "debug" => LinesAtLevel(file, "WARNING") = cycles)
    /\ IsPrefix(file0, file)

\* C3 (append-only), amended: after N complete cycles the file shows exactly N
\* WARNING lines more than it held when the process started, and every step
\* leaves the old content as a prefix of the new content.
C3_AppendOnly ==
    /\ [](pc = "debug" =>
            /\ LinesAtLevel(file, "WARNING") = LinesAtLevel(file0, "WARNING") + cycles
            /\ Len(file) = Len(file0) + cycles)
    /\ [][IsPrefix(file, file')]_vars

C3_Witness ==
    /\ pc = "debug"
    /\ cycles = 2
    /\ Len(file0) = 2
    /\ Len(file) = 4

\* C4 (timestamp order): each line of the file carries a timestamp strictly
\* greater than that of the line before it.
C4_TimestampOrder ==
    \A i \in 1..(Len(file) - 1) : TsLess(LineTs(file[i]), LineTs(file[i + 1]))

\* lines of an earlier run followed by two lines of this run, these two across
\* a change of second where the millisecond field goes down
C4_Witness ==
    /\ Len(file0) >= 1
    /\ Len(file) >= Len(file0) + 2
    /\ \E i \in (Len(file0) + 1)..(Len(file) - 1) :
          LineTs(file[i + 1])[2] < LineTs(file[i])[2]

\* C5 (format): every line of the file is the template with a timestamp, the
\* level name WARNING and the literal warning message.
C5_Format ==
    \A i \in 1..Len(file) :
       /\ Len(file[i]) = 7
       /\ LineTs(file[i]) \in Nat \X (0..999)
       /\ file[i] = << "{\"timestamp\": \"", LineTs(file[i]),
                       "\", \"level\": \"", "WARNING",
                       "\", \"message\": \"", "This is an warn log from app3",
                       "\"}" >>

C5_Witness ==
    /\ Len(file) >= Len(file0) + 2
    /\ debugCalls >= 2

\* a start that failed: the loop was never entered, nothing was attempted or
\* written, the file was opened at most once and the logger never configured
FailedStartup ==
    /\ pc \in { "init", "failed", "stopped" }
    /\ (opens = 1 => pc = "failed")
    /\ opens <= 1
    /\ configured = 0
    /\ debugCalls = 0
    /\ warningCalls = 0
    /\ file = file0

\* C6, as claimed: a missing or unwritable directory makes the start fail.
C6_Original ==
    dir \in { "missing", "unwritable" } => FailedStartup

\* C6 (startup failure), amended: when the directory is missing, or is not
\* writable and the file does not exist yet, the start fails: the process
\* ends failed, never enters the loop, attempts and writes nothing, and does
\* not try again.
C6_StartupFailure ==
    (dir = "missing" \/ (dir = "unwritable" /\ ~exists)) => FailedStartup

C6_Witness ==
    /\ pc = "failed"
    /\ dir = "unwritable"
    /\ opens = 1

\* C7 (no natural exit): the program never runs off the end of the loop, it
\* is stopped only by external termination, and as long as it is not
\* terminated every warning is followed by another one (up to the bound of
\* the model).
C7_NoNaturalExit ==
    /\ [](pc # "exited")
    /\ [](pc = "stopped" => killed)
    /\ \A n \in 0..(MaxCycles - 1) :
          (pc \in LoopPcs /\ warningCalls = n)
             ~> ((warningCalls = n + 1 /\ Len(file) = Len(file0) + n + 1)
                 \/ pc = "stopped")

C7_Witness ==
    /\ pc \in LoopPcs
    /\ ~killed
    /\ cycles >= 1
    /\ warningCalls = cycles + 1

\* C8 (timing): the timestamps of two consecutive lines written by this run
\* are at least 3 seconds apart.
C8_Timing ==
    \A i \in (Len(file0) + 1)..(Len(file) - 1) :
       TsMillis(LineTs(file[i + 1])) - TsMillis(LineTs(file[i])) >= 3 * 1000

\* two lines exactly 3 seconds apart, after the lines of an earlier run
C8_Witness ==
    /\ Len(file0) > 0
    /\ \E i \in (Len(file0) + 1)..(Len(file) - 1) :
          TsMillis(LineTs(file[i + 1])) - TsMillis(LineTs(file[i])) = 3 * 1000

\* C9 (cycle ordering): in every cycle the debug call comes first, then the
\* warning call, then the sleep; the next debug call comes only after the
\* sleep; nothing is attempted or written during the sleep.
C9_CycleOrder ==
    /\ [](/\ (pc = "debug"   => debugCalls = cycles     /\ warningCalls = cycles)
          /\ (pc = "warning" => debugCalls = cycles + 1 /\ warningCalls = cycles)
          /\ (pc = "sleep"   => debugCalls = cycles + 1 /\ warningCalls = cycles + 1))
    /\ [][ /\ (debugCalls' # debugCalls => pc = "debug" /\ pc' \in { "warning", "stopped" })
           /\ (warningCalls' # warningCalls => pc = "warning" /\ pc' \in { "sleep", "stopped" })
           /\ (pc = "sleep" =>
                 /\ debugCalls' = debugCalls
                 /\ warningCalls' = warningCalls
                 /\ file' = file)
         ]_vars

C9_Witness ==
    /\ pc = "debug"
    /\ cycles >= 1
    /\ debugCalls = cycles
    /\ warningCalls = cycles

\* C10 (configuration frame): the root logger is configured exactly once,
\* before the first cycle, with the file, the threshold INFO and the format;
\* no step of the loop changes it.
C10_ConfigFrame ==
    /\ [](pc = "init" => configured = 0)
    /\ [](pc \in LoopPcs =>
            /\ configured = 1
            /\ root = [ level |-> 20,
                        handlers |-> << [ filename |-> "/tmp/app-logs/app3.log",
                                          mode |-> "a",
                                          fmt |-> FormatTemplate ] >> ])
    /\ [][(pc \in LoopPcs) => (root' = root /\ configured' = configured)]_vars

C10_Witness ==
    /\ pc = "sleep"
    /\ cycles >= 1
    /\ configured = 1
    /\ root.level = 20

====
